---- MODULE Spec2Model ----
(***************************************************************************)
(* A model of atoml's kernel ridge regression engine (atoml/predict.py):   *)
(* the FitnessPrediction object, its get_predictions operation and the      *)
(* helpers target_standardize and get_error; and of the learning curve of   *)
(* atoml/utilities/utilities.py, which runs a caller's predict function on  *)
(* subsets of the training data, serially or on a pool of workers.          *)
(*                                                                         *)
(* Numbers.  A float is held in fixed point: the integer n stands for the   *)
(* value n / Scale, and every product, quotient and root is rounded to that *)
(* grid, as a float operation is rounded to its own.  NaN is the result of  *)
(* 0/0 and of the root of a negative number, and it propagates through      *)
(* arithmetic, as in numpy.  Kernel widths and the regularization are held  *)
(* in units of 1e-6 (Micro), so that both ends of the optimizer's bounds    *)
(* are exact integers.                                                      *)
(*                                                                         *)
(* Strings compared with "is".  The code dispatches on  ktype is 'gaussian' *)
(* and  cost is 'squared' : object identity, true for equal text only when  *)
(* both operands are the same interned object.  A string is therefore a     *)
(* record of its text and of whether it is the interned literal.            *)
(*                                                                         *)
(* Optional arguments.  None is the empty tuple and a supplied value v is    *)
(* the one-element tuple <<v>>.                                              *)
(***************************************************************************)
EXTENDS Integers, Sequences, FiniteSets, TLC

VARIABLES
    kernel_dict,          \* self.kernel_dict: the descriptors in iteration order
    regularization,       \* self.regularization
    standardize_target,   \* self.standardize_target (unset until the first call)
    standardize_data,     \* self.standardize_data (unset until a standardizing call)
    theta_opt,            \* self.theta_opt (unset until an optimization completes)
    ret,                  \* the latest get_predictions call: arguments, outcome, trace
    ref,                  \* an earlier call kept for comparison with a later one
    err,                  \* a direct get_error call: arguments and outcome
    curve                 \* a learning_curve call: arguments, tasks, output

vars == <<kernel_dict, regularization, standardize_target, standardize_data,
          theta_opt, ret, ref, err, curve>>

engine == <<kernel_dict, regularization, standardize_target, standardize_data,
            theta_opt>>

----------------------------------------------------------------------------
(* Bounds of the model.                                                     *)

\* longest prediction / target sequence handed to get_error directly
MaxLen == 2

\* number of feature columns (N_D) of the training and test matrices
NumFeatures == 2

\* learning_curve: most rows of train, largest step, largest min_data, and
\* most worker processes
MaxRows == 4
MaxStep == 2
MaxMinData == 2
MaxProcs == 2

----------------------------------------------------------------------------
(* Numbers.                                                                 *)

Scale == 10 * 10
Micro == 1000 * 1000

NaN == -(2^30)

None == << >>
Some(v) == <<v>>
IsNone(o) == Len(o) = 0
Val(o) == o[1]

IsNaN(a) == a = NaN
Abs(a) == IF a < 0 THEN -a ELSE a

NAdd(a, b) == IF IsNaN(a) \/ IsNaN(b) THEN NaN ELSE a + b
NSub(a, b) == IF IsNaN(a) \/ IsNaN(b) THEN NaN ELSE a - b
NAbs(a) == IF IsNaN(a) THEN NaN ELSE Abs(a)

\* round-to-nearest quotient of integers, b > 0
RoundDiv(a, b) == (2 * a + b) \div (2 * b)

\* a * b on the grid; the product is split so that it stays in 32 bits
NMul(a, b) ==
    IF IsNaN(a) \/ IsNaN(b) THEN NaN
    ELSE LET s  == IF (a < 0) = (b < 0) THEN 1 ELSE -1
             x  == Abs(a)
             y  == Abs(b)
         IN  s * ((x \div Scale) * y + RoundDiv((x % Scale) * y, Scale))

\* a / b on the grid; 0/0 is NaN (no other division by zero arises here)
NDiv(a, b) ==
    IF IsNaN(a) \/ IsNaN(b) \/ b = 0 THEN NaN
    ELSE LET s == IF (a < 0) = (b < 0) THEN 1 ELSE -1
         IN  s * RoundDiv(Abs(a) * Scale, Abs(b))

\* a / n for a count n (len(e)); 0/0 is NaN
NDivInt(a, n) ==
    IF IsNaN(a) \/ n = 0 THEN NaN
    ELSE LET s == IF a < 0 THEN -1 ELSE 1 IN s * RoundDiv(Abs(a), n)

RECURSIVE ISqrt(_, _, _)
\* the largest r in lo..hi with r * r <= x
ISqrt(x, lo, hi) ==
    IF lo >= hi THEN lo
    ELSE LET mid == (lo + hi + 1) \div 2
         IN  IF mid * mid <= x THEN ISqrt(x, mid, hi) ELSE ISqrt(x, lo, mid - 1)

\* the square root on the grid; the root of a negative number is NaN
NSqrt(a) ==
    IF IsNaN(a) \/ a < 0 THEN NaN
    ELSE ISqrt(a * Scale, 0, 46340)

RECURSIVE Tab(_, _)
\* the sequence <<Op(1), ..., Op(n)>>
Tab(Op(_), n) == IF n = 0 THEN << >> ELSE Append(Tab(Op, n - 1), Op(n))

RECURSIVE NSum(_)
NSum(s) == IF Len(s) = 0 THEN 0 ELSE NAdd(Head(s), NSum(Tail(s)))

Map1(Op(_), s) == Tab(LAMBDA i : Op(s[i]), Len(s))
VSub(u, v) == Tab(LAMBDA i : NSub(u[i], v[i]), Len(u))
NSquare(a) == NMul(a, a)

SeqsUpTo(V, n) == UNION {[1..k -> V] : k \in 0..n}

----------------------------------------------------------------------------
(* Strings under "is".                                                      *)

Str(text, interned) == [text |-> text, interned |-> interned]
Lit(text) == Str(text, TRUE)

\* s is 'lit'
StrIs(s, lit) == s.text = lit /\ s.interned

----------------------------------------------------------------------------
(* get_error (predict.py 256-297).                                          *)

MsgPrefix == "Something has gone wrong and there are "

Raised(kind, msg) ==
    [status |-> kind, msg |-> msg, keys |-> {}, all |-> << >>, average |-> 0]

ErrorDict(keys, all, average) ==
    [status |-> "ok", msg |-> << >>, keys |-> keys, all |-> all, average |-> average]

\* the two message tails exchanged
get_error_msg_swapped(prediction, target) ==
    IF Len(prediction) < Len(target)
        THEN <<MsgPrefix, "fewer targets than predictions.">>
    ELSE IF Len(prediction) > Len(target)
        THEN <<MsgPrefix, "more targets than predictions.">>
    ELSE <<MsgPrefix>>

\* msg as built by lines 267-271
get_error_msg(prediction, target) ==
    IF Len(prediction) < Len(target)
        THEN <<MsgPrefix, "more targets than predictions.">>
    ELSE IF Len(prediction) > Len(target)
        THEN <<MsgPrefix, "fewer targets than predictions.">>
    ELSE <<MsgPrefix>>

\* the condition asserted at line 272
get_error_guard(prediction, target) == Len(prediction) = Len(target)

\* np.place(e, e < 0, 0)
Place0(e) == Tab(LAMBDA i : IF ~IsNaN(e[i]) /\ e[i] < 0 THEN 0 ELSE e[i], Len(e))

\* the three cost branches, lines 278-297; an unmatched cost leaves error empty
get_error_cost(prediction, target, cost, epsilon) ==
    IF StrIs(cost, "squared")
        THEN LET e == Map1(NSquare, VSub(prediction, target))
             IN  ErrorDict({"all", "average"}, Map1(NSqrt, e),
                           NSqrt(NDivInt(NSum(e), Len(e))))
    ELSE IF StrIs(cost, "absolute")
        THEN LET e == Map1(NAbs, VSub(prediction, target))
             IN  ErrorDict({"all", "average"}, e, NDivInt(NSum(e), Len(e)))
    ELSE IF StrIs(cost, "insensitive")
        THEN IF IsNone(epsilon)
                 THEN Raised("TypeError", << >>)
                 ELSE LET d == Map1(NAbs, VSub(prediction, target))
                          e == Place0(Tab(LAMBDA i : NSub(d[i], Val(epsilon)), Len(d)))
                      IN  ErrorDict({"all", "average"}, e,
                                    NDivInt(NSum(e), Len(e)))
    ELSE ErrorDict({}, << >>, 0)

\* target is optional at the call sites: len(None) is a TypeError at line 268
get_error(prediction, target, cost, epsilon) ==
    IF IsNone(target)
        THEN Raised("TypeError", << >>)
    ELSE IF ~get_error_guard(prediction, Val(target))
        THEN Raised("AssertionError", get_error_msg(prediction, Val(target)))
    ELSE get_error_cost(prediction, Val(target), cost, epsilon)

----------------------------------------------------------------------------
(* Dense linear algebra (numpy): a vector is a sequence, a matrix a         *)
(* sequence of rows.                                                        *)

One == Scale

Dot(u, v) == NSum(Tab(LAMBDA i : NMul(u[i], v[i]), Len(u)))
Col(A, j) == Tab(LAMBDA i : A[i][j], Len(A))
NCols(A) == IF Len(A) = 0 THEN 0 ELSE Len(A[1])
Transpose(A) == Tab(LAMBDA j : Col(A, j), NCols(A))
\* np.dot(v, A) for a vector v
VecMat(v, A) == Tab(LAMBDA j : Dot(v, Col(A, j)), NCols(A))
\* A.dot(v) for a vector v
MatVec(A, v) == Tab(LAMBDA i : Dot(A[i], v), Len(A))
\* A.dot(B)
MatMul(A, B) == Tab(LAMBDA i : VecMat(A[i], B), Len(A))
MatAdd(A, B) == Tab(LAMBDA i : Tab(LAMBDA j : NAdd(A[i][j], B[i][j]), Len(A[i])), Len(A))
MatSub(A, B) == Tab(LAMBDA i : Tab(LAMBDA j : NSub(A[i][j], B[i][j]), Len(A[i])), Len(A))
VAdd(u, v) == Tab(LAMBDA i : NAdd(u[i], v[i]), Len(u))
Diag(n, c) == Tab(LAMBDA i : Tab(LAMBDA j : IF i = j THEN c ELSE 0, n), n)

\* the determinant np.linalg.inv pivots on, for the 1x1 and 2x2 matrices used
Det(A) ==
    IF Len(A) = 1 THEN A[1][1]
    ELSE NSub(NMul(A[1][1], A[2][2]), NMul(A[1][2], A[2][1]))

\* np.linalg.inv raises LinAlgError on a singular matrix
Singular(A) == Det(A) = 0

\* np.linalg.inv of a non-singular 1x1 or 2x2 matrix
Inv(A) ==
    LET d == Det(A)
    IN  IF Len(A) = 1 THEN <<<<NDiv(One, d)>>>>
        ELSE << <<NDiv(A[2][2], d), NDiv(-A[1][2], d)>>,
                <<NDiv(-A[2][1], d), NDiv(A[1][1], d)>> >>

----------------------------------------------------------------------------
(* Kernel library and covariance builder (atoml/kernels.py and              *)
(* atoml/covariance.py are not part of this source tree; they are modelled  *)
(* from sections 4.1 and 4.2 of the specification).                         *)

\* exp(-z) on the grid for z >= 0, tabulated in steps of a quarter
ExpNegTable ==
    <<100, 78, 61, 47, 37, 29, 22, 17, 14, 11, 8, 6, 5, 4, 3, 2, 2, 1, 1>>

ExpNeg(z) ==
    IF IsNaN(z) THEN NaN
    ELSE LET q == RoundDiv(4 * z, Scale)
         IN  IF q + 1 > Len(ExpNegTable) THEN 0
             ELSE RoundDiv(ExpNegTable[q + 1] * Scale, 100)

\* a width or regularization in units of 1e-6, on the grid
MicroToNum(m) == RoundDiv(m, Micro \div Scale)

\* (x - y) / w on the grid for a width w in units of 1e-6, capped at 10
Ratio(d, w) ==
    IF w = 0 THEN (IF d = 0 THEN NaN ELSE 10 * Scale)
    ELSE LET r == RoundDiv(Abs(d) * Micro, w)
         IN  IF r > 10 * Scale THEN 10 * Scale ELSE r

\* the i-th width of a descriptor: a scalar width is replicated
WidthAt(width, i) == IF Len(width.v) = 1 THEN width.v[1] ELSE width.v[i]

\* one descriptor's kernel value between feature vectors x and y
kernel(desc, x, y) ==
    IF desc.type.text = "linear" THEN Dot(x, y)
    ELSE IF desc.type.text = "polynomial" THEN NSquare(NAdd(Dot(x, y), One))
    ELSE IF desc.type.text = "gaussian"
        THEN ExpNeg(NSum(Tab(LAMBDA i : NSquare(Ratio(x[i] - y[i], WidthAt(Val(desc.width), i))), Len(x))))
    ELSE \* laplacian
         ExpNeg(NSum(Tab(LAMBDA i : Ratio(x[i] - y[i], WidthAt(Val(desc.width), 1)), Len(x))))

\* the combined kernel: the sum over the descriptors
kernel_combine(kdict, x, y) ==
    NSum(Tab(LAMBDA k : kernel(kdict[k], x, y), Len(kdict)))

\* get_covariance(test_matrix, train_matrix, kernel_dict): never regularized
get_covariance(test_fp, train_fp, kdict) ==
    Tab(LAMBDA i : Tab(LAMBDA j : kernel_combine(kdict, test_fp[i], train_fp[j]), Len(train_fp)), Len(test_fp))

\* gramian(matrix, kernel_dict, regularization): regularization on the diagonal
gramian(fp, kdict, reg) ==
    Tab(LAMBDA i : Tab(LAMBDA j : IF i = j /\ ~IsNone(reg)
                THEN NAdd(kernel_combine(kdict, fp[i], fp[j]), MicroToNum(Val(reg)))
                ELSE kernel_combine(kdict, fp[i], fp[j]), Len(fp)), Len(fp))

----------------------------------------------------------------------------
(* target_standardize (predict.py 235-253).                                 *)

Mean(t) == NDivInt(NSum(t), Len(t))

\* np.std: the population standard deviation
Std(t) ==
    LET m == Mean(t)
    IN  NSqrt(NDivInt(NSum(Tab(LAMBDA i : NSquare(NSub(t[i], m)), Len(t))), Len(t)))

target_standardize(target) ==
    LET m == Mean(target)
        s == Std(target)
    IN  [mean |-> m, std |-> s,
         target |-> Tab(LAMBDA i : NDiv(NSub(target[i], m), s), Len(target))]

----------------------------------------------------------------------------
(* do_prediction, get_uncertainty and fixed_basis (predict.py 176-233).     *)
(* self_st and self_sd are self.standardize_target and                      *)
(* self.standardize_data as the method reads them.                          *)

do_prediction(self_st, self_sd, ktb, cinv, target) ==
    LET train_mean    == Mean(target)
        target_values == Tab(LAMBDA i : NSub(target[i], train_mean), Len(target))
    IN  Tab(LAMBDA k : LET ktcinv == VecMat(ktb[k], cinv)
                p      == NAdd(Dot(ktcinv, target_values), train_mean)
            IN  IF Val(self_st)
                    THEN NAdd(NMul(p, Val(self_sd).std), Val(self_sd).mean)
                    ELSE p, Len(ktb))

\* the value under the root at line 194
uncertainty_radicand(cinv, kt) == NSub(One, Dot(VecMat(kt, cinv), kt))

get_uncertainty(cinv, ktb) ==
    Tab(LAMBDA k : NSqrt(uncertainty_radicand(cinv, ktb[k])), Len(ktb))

\* the caller's basis function: the bias-only basis x -> [1]
basis_fn(x) == <<One>>

NoBasis == [status |-> "ok", keys |-> {}, g_cov |-> << >>, gX |-> << >>,
            validation_rmse |-> ErrorDict({}, << >>, 0)]

BasisRaised(kind) == [NoBasis EXCEPT !.status = kind]

fixed_basis(self_st, self_sd, kdict, test_fp, train_fp, ktb, cinv, target, test_target, cost, epsilon) ==
    LET ktest        == gramian(test_fp, kdict, None)
        train_matrix == Tab(LAMBDA i : basis_fn(train_fp[i]), Len(train_fp))
        test_matrix  == Tab(LAMBDA i : basis_fn(test_fp[i]), Len(test_fp))
        r     == MatSub(test_matrix, MatMul(ktb, MatMul(cinv, train_matrix)))
        gca   == MatMul(Transpose(train_matrix), MatMul(cinv, train_matrix))
        b1    == Inv(gca)
        b2    == VecMat(target, MatMul(cinv, train_matrix))
        beta  == MatVec(b1, b2)
        covf  == MatSub(ktest, MatMul(ktb, MatMul(cinv, Transpose(ktb))))
        g_cov == MatAdd(covf, MatMul(r, MatMul(Inv(gca), Transpose(r))))
        gX    == VAdd(do_prediction(self_st, self_sd, ktb, cinv, target),
                      VecMat(beta, Transpose(r)))
        verr  == get_error(gX, test_target, cost, epsilon)
    IN  IF Singular(gca) THEN BasisRaised("LinAlgError")
        ELSE IF IsNone(test_target)
            THEN [status |-> "ok", keys |-> {"g_cov", "gX"}, g_cov |-> g_cov,
                  gX |-> gX, validation_rmse |-> ErrorDict({}, << >>, 0)]
        ELSE IF verr.status # "ok" THEN BasisRaised(verr.status)
        ELSE [status |-> "ok", keys |-> {"g_cov", "gX", "validation_rmse"},
              g_cov |-> g_cov, gX |-> gX, validation_rmse |-> verr]

----------------------------------------------------------------------------
(* Hyperparameter optimization inside get_predictions (predict.py 84-119).  *)

LowerBound == 1
UpperBound == 1000000000

Width(kind, v) == [kind |-> kind, v |-> v]
Desc(key, type, width) == [key |-> key, type |-> type, width |-> width]

\* lines 95-97: kwidth as stored into theta; only a Python float is replicated
kwidth_vector(width, N_D) ==
    IF width.kind = "float" THEN Tab(LAMBDA i : width.v[1], N_D) ELSE width.v

\* line 98: np.append(kwidth, self.regularization); a None regularization
\* stays in the array as a None entry
initial_theta(width, N_D, reg) ==
    LET kw == kwidth_vector(width, N_D)
    IN  Tab(LAMBDA i : Some(kw[i]), Len(kw)) \o <<reg>>

LoopState(status, nkernels, theta, kernelkey) ==
    [status |-> status, nkernels |-> nkernels, theta |-> theta,
     kernelkey |-> kernelkey]

RECURSIVE kernel_loop(_, _, _, _, _)
\* lines 87-102, from the k-th key of the dict on.  The else branch evaluates
\* self.ktype, an attribute the class never sets, before NotImplementedError
\* is constructed: the statement raises AttributeError.
kernel_loop(kdict, reg, N_D, k, acc) ==
    IF k > Len(kdict) THEN acc
    ELSE IF acc.nkernels > 0
        THEN LoopState("NotImplementedError", acc.nkernels, acc.theta, k)
    ELSE IF StrIs(kdict[k].type, "gaussian")
        THEN kernel_loop(kdict, reg, N_D, k + 1,
                 LoopState("ok", acc.nkernels + 1,
                           initial_theta(Val(kdict[k].width), N_D, reg), k))
    ELSE LoopState("AttributeError", acc.nkernels, acc.theta, k)

\* bounds that leave the lower end at zero
hyper_bounds_open(theta) == Tab(LAMBDA i : <<0, UpperBound>>, Len(theta))

\* line 107: one (1E-6, 1e3) pair per component of theta
hyper_bounds(theta) == Tab(LAMBDA i : <<LowerBound, UpperBound>>, Len(theta))

\* values the optimizer may report for a component, in units of 1e-6
OptSamples == {0, LowerBound, UpperBound, 2 * UpperBound}

\* scipy.optimize.minimize with bounds (L-BFGS-B): a non-numeric x0 is a
\* TypeError, a bounds list of another length than x0 a ValueError
minimize_status(theta, bounds) ==
    IF \E i \in 1..Len(theta) : IsNone(theta[i]) THEN "TypeError"
    ELSE IF Len(bounds) # Len(theta) THEN "ValueError"
    ELSE "ok"

\* ... and otherwise its result x is a point of the box; which one is decided
\* by log_marginal_likelihood and the data, and is left open here
minimize_results(theta, bounds) ==
    {x \in [1..Len(theta) -> OptSamples] :
        \A i \in 1..Len(theta) : bounds[i][1] <= x[i] /\ x[i] <= bounds[i][2]}

\* line 114: self.theta_opt['x'][:-1]
persist_width(x) == Width("array", SubSeq(x, 1, Len(x) - 1))

\* the first component taken for the last
persist_regularization_first(x) == x[1]

\* line 115: self.theta_opt['x'][-1]
persist_regularization(x) == x[Len(x)]

\* lines 86-110 up to the optimizer's return: the loop, the bounds, the call
optimize_setup(kdict, reg, N_D) ==
    LET loop   == kernel_loop(kdict, reg, N_D, 1, LoopState("ok", 0, << >>, 0))
        bounds == hyper_bounds(loop.theta)
    IN  [status |-> IF loop.status # "ok" THEN loop.status
                    ELSE IF loop.nkernels = 0 THEN "UnboundLocalError"
                    ELSE minimize_status(loop.theta, bounds),
         theta  |-> IF loop.status = "ok" THEN loop.theta ELSE << >>,
         bounds |-> IF loop.status = "ok" THEN bounds ELSE << >>,
         minimize_called |-> loop.status = "ok" /\ loop.nkernels > 0,
         kernelkey |-> loop.kernelkey]

\* the results the optimizer can report for this engine and this call
optimizer_choices(kdict, reg, N_D, optimize_hyperparameters) ==
    LET o == optimize_setup(kdict, reg, N_D)
    IN  IF optimize_hyperparameters /\ o.status = "ok"
            THEN minimize_results(o.theta, o.bounds)
            ELSE {<< >>}

----------------------------------------------------------------------------
(* get_predictions (predict.py 35-174), statement by statement.  A frame    *)
(* holds the call in progress: the engine's fields as the call has left     *)
(* them so far, the locals, the bundle under construction and a trace of    *)
(* what the call did.  Once a statement raises, the remaining ones are      *)
(* skipped and the fields stay as they are.                                 *)

Self(kd, reg, st, sd, th) ==
    [kernel_dict |-> kd, regularization |-> reg, standardize_target |-> st,
     standardize_data |-> sd, theta_opt |-> th]

NoError == ErrorDict({}, << >>, 0)

NoData ==
    [keys |-> {}, prediction |-> << >>, validation_rmse |-> NoError,
     train_prediction |-> << >>, training_rmse |-> NoError,
     uncertainty |-> << >>, basis_analysis |-> NoBasis]

NoTrace ==
    [minimize_called |-> FALSE, theta |-> << >>, bounds |-> << >>,
     optimized |-> FALSE, gram_calls |-> << >>]

Frame(self, c) ==
    [status |-> "ok", stage |-> "return", self |-> self,
     train_target |-> c.train_target, error_train |-> c.train_target,
     cinv |-> c.cinv, ktb |-> << >>, data |-> NoData, trace |-> NoTrace]

Raise(f, status, stage) == [f EXCEPT !.status = status, !.stage = stage]

GramCall(line, kdict, reg) ==
    [line |-> line, kernel_dict |-> kdict, regularization |-> reg]

\* the flag kept from the first call that set it
set_standardize_target_sticky(old, arg) == IF IsNone(old) THEN Some(arg) ELSE old

\* line 76
set_standardize_target(old, arg) == Some(arg)

\* lines 80-81
set_standardize_data(old, standardize, train_target) ==
    IF standardize THEN Some(target_standardize(train_target)) ELSE old

\* lines 76-82
gp_standardize(c, f) ==
    LET sd == set_standardize_data(f.self.standardize_data, c.standardize_target,
                                   c.train_target)
    IN  [f EXCEPT
            !.self.standardize_target =
                set_standardize_target(f.self.standardize_target,
                                       c.standardize_target),
            !.self.standardize_data = sd,
            !.train_target = IF c.standardize_target THEN Val(sd).target
                             ELSE c.train_target]

\* lines 84-119; x is the optimizer's result
gp_optimize(c, x, f) ==
    IF ~c.optimize_hyperparameters THEN f
    ELSE LET opt == optimize_setup(f.self.kernel_dict, f.self.regularization,
                                   NCols(c.train_fp))
             tr  == [f.trace EXCEPT !.minimize_called = opt.minimize_called,
                                    !.theta = opt.theta, !.bounds = opt.bounds]
         IN  IF opt.status # "ok"
                 THEN [Raise(f, opt.status, "optimize") EXCEPT !.trace = tr]
                 ELSE [f EXCEPT
                          !.self.theta_opt = Some(x),
                          !.self.kernel_dict[opt.kernelkey].width =
                              Some(persist_width(x)),
                          !.self.regularization = Some(persist_regularization(x)),
                          !.trace = [tr EXCEPT !.optimized = TRUE]]

\* lines 122-128
gp_inverse(c, f) ==
    IF f.status # "ok" \/ ~IsNone(c.cinv) THEN f
    ELSE LET cvm == gramian(c.train_fp, f.self.kernel_dict, f.self.regularization)
             tr  == [f.trace EXCEPT !.gram_calls =
                        Append(@, GramCall(125, f.self.kernel_dict,
                                           f.self.regularization))]
         IN  IF Singular(cvm)
                 THEN [Raise(f, "LinAlgError", "inverse") EXCEPT !.trace = tr]
                 ELSE [f EXCEPT !.cinv = Some(Inv(cvm)), !.trace = tr]

\* lines 130-135
gp_predict(c, f) ==
    IF f.status # "ok" THEN f
    ELSE LET ktb == get_covariance(c.test_fp, c.train_fp, f.self.kernel_dict)
         IN  [f EXCEPT
                 !.ktb = ktb,
                 !.data.keys = @ \cup {"prediction"},
                 !.data.prediction =
                     do_prediction(f.self.standardize_target,
                                   f.self.standardize_data, ktb, Val(f.cinv),
                                   f.train_target)]

\* the conditions of lines 138, 144, 159 and 162
wants_validation_error(c) == c.get_validation_error
wants_training_error(c) == c.get_training_error
wants_uncertainty_always(c) == TRUE
wants_uncertainty(c) == c.uncertainty
wants_basis(c) == c.basis

\* lines 137-141
gp_validation(c, f) ==
    IF f.status # "ok" \/ ~wants_validation_error(c) THEN f
    ELSE LET e == get_error(f.data.prediction, c.test_target, c.cost, c.epsilon)
         IN  IF e.status # "ok" THEN Raise(f, e.status, "validation")
             ELSE [f EXCEPT !.data.keys = @ \cup {"validation_rmse"},
                            !.data.validation_rmse = e]

\* lines 143-156
gp_training(c, f) ==
    IF f.status # "ok" \/ ~wants_training_error(c) THEN f
    ELSE LET kt_train == gramian(c.train_fp, f.self.kernel_dict, None)
             tp == do_prediction(f.self.standardize_target,
                                 f.self.standardize_data, kt_train, Val(f.cinv),
                                 f.train_target)
             e  == get_error(tp, Some(f.error_train), c.cost, c.epsilon)
             tr == [f.trace EXCEPT !.gram_calls =
                       Append(@, GramCall(146, f.self.kernel_dict, None))]
         IN  IF e.status # "ok"
                 THEN [Raise(f, e.status, "training") EXCEPT !.trace = tr]
                 ELSE [f EXCEPT
                          !.data.keys = @ \cup {"train_prediction", "training_rmse"},
                          !.data.train_prediction = tp,
                          !.data.training_rmse = e,
                          !.trace = tr]

\* lines 158-160
gp_uncertainty(c, f) ==
    IF f.status # "ok" \/ ~wants_uncertainty(c) THEN f
    ELSE [f EXCEPT !.data.keys = @ \cup {"uncertainty"},
                   !.data.uncertainty = get_uncertainty(Val(f.cinv), f.ktb)]

\* lines 162-169
gp_basis(c, f) ==
    IF f.status # "ok" \/ ~wants_basis(c) THEN f
    ELSE LET fb == fixed_basis(f.self.standardize_target, f.self.standardize_data,
                               f.self.kernel_dict, c.test_fp, c.train_fp, f.ktb,
                               Val(f.cinv), f.train_target, c.test_target,
                               c.cost, c.epsilon)
             tr == [f.trace EXCEPT !.gram_calls =
                       Append(@, GramCall(203, f.self.kernel_dict, None))]
         IN  IF fb.status # "ok"
                 THEN [Raise(f, fb.status, "basis") EXCEPT !.trace = tr]
                 ELSE [f EXCEPT !.data.keys = @ \cup {"basis_analysis"},
                                !.data.basis_analysis = fb,
                                !.trace = tr]

\* line 174: the bundle is returned only if nothing raised
gp_return(f) == IF f.status = "ok" THEN f ELSE [f EXCEPT !.data = NoData]

----------------------------------------------------------------------------
(* LearningCurve (utilities.py 9-115).  A training row is held as its index *)
(* in train, and the target of row i is TargetOf(i), so that a slice of the *)
(* rows and a slice of the targets can be compared.                         *)

TargetOf(i) == Scale * i

\* train and target as the caller passes them: n rows and their targets
TrainRows(n) == Tab(LAMBDA i : i, n)
TrainTargets(n) == Tab(TargetOf, n)

\* s[-k:] for k >= 0: -0 is 0, so k = 0 takes all of s; a k beyond the length
\* is clipped to the start
LastRows(s, k) ==
    IF k = 0 \/ k >= Len(s) THEN s ELSE SubSeq(s, Len(s) - k + 1, Len(s))

\* line 54
total(n, min_data, step) == (n - min_data) \div step

\* range(total) and np.arange(total): empty when total <= 0
tasks(t) == Tab(LAMBDA i : i - 1, IF t > 0 THEN t ELSE 0)

\* the caller's predict: a list of floats computed from the training subset
\* it is given (its size and the sum of its targets)
predict(train, targets, test, test_targets) == <<Scale * Len(train), NSum(targets)>>

\* lines 101-111: the subset handed to predict by task x
single_model_subset(x, step, train_features, train_targets) ==
    LET n == x * step
    IN  [x |-> x, train |-> LastRows(train_features, n),
         targets |-> LastRows(train_targets, n)]

\* _single_model, lines 82-115
single_model(x, step, train_features, train_targets) ==
    LET sub == single_model_subset(x, step, train_features, train_targets)
    IN  predict(sub.train, sub.targets, << >>, << >>)

NoCurve ==
    [pc |-> "none", nprocs |-> 1, n |-> 0, step |-> 1, min_data |-> 0,
     total |-> 0, x |-> 0, pending |-> << >>, running |-> {}, results |-> << >>,
     output |-> << >>, calls |-> << >>]

\* LearningCurve(nprocs).learning_curve(predict, train, target, test,
\* test_target, step, min_data) for a train of n rows
CurveArgs ==
    { [NoCurve EXCEPT !.pc = "args", !.nprocs = p, !.n = n, !.step = st,
                      !.min_data = m] :
        p \in 1..MaxProcs, n \in 0..MaxRows, st \in 1..MaxStep,
        m \in 0..MaxMinData }

----------------------------------------------------------------------------
(* Direct calls of get_error: the arguments are drawn, then the call runs.  *)

ErrValues == {0, Scale, 3 * Scale}
ErrSeqs == SeqsUpTo(ErrValues, MaxLen)
CostNames == {"squared", "absolute", "insensitive", "huber"}
KnownCosts == {"squared", "absolute", "insensitive"}
CostArgs == {Str(n, i) : n \in CostNames, i \in BOOLEAN}
EpsilonArgs == {None, Some(-Scale), Some(0), Some(Scale)}

NoErr == [pc |-> "none", prediction |-> << >>, target |-> Some(<< >>),
          cost |-> Lit("squared"), epsilon |-> None,
          result |-> ErrorDict({}, << >>, 0)]

ErrArgs ==
    {[pc |-> "args", prediction |-> p, target |-> Some(t), cost |-> c, epsilon |-> e,
      result |-> ErrorDict({}, << >>, 0)] :
        p \in ErrSeqs, t \in ErrSeqs, c \in CostArgs, e \in EpsilonArgs}

EngineInit0 ==
    /\ kernel_dict = << >>
    /\ regularization = None
    /\ standardize_target = None
    /\ standardize_data = None
    /\ theta_opt = None
    /\ ret = [pc |-> "idle"]
    /\ ref = None

InitErr ==
    /\ EngineInit0
    /\ err \in ErrArgs
    /\ curve = NoCurve

CallGetError ==
    /\ err.pc = "args"
    /\ err' = [err EXCEPT !.pc = "done",
                          !.result = get_error(err.prediction, err.target,
                                               err.cost, err.epsilon)]
    /\ UNCHANGED <<engine, ret, ref, curve>>

NextErr == CallGetError

SpecErr == InitErr /\ [][NextErr]_vars

----------------------------------------------------------------------------
(* The engine and its callers.                                              *)

\* a feature row: the examples differ in their first feature
Row(a) == Tab(LAMBDA i : IF i = 1 THEN a ELSE 0, NumFeatures)

TrainSets ==
    { [fp |-> <<Row(0), Row(Scale)>>,      target |-> <<0, 2 * Scale>>],
      [fp |-> <<Row(0), Row(2 * Scale)>>,  target |-> <<Scale, 5 * Scale>>] }

TestFp == <<Row(0), Row(3 * Scale)>>

TestTargets == {None, Some(<<0, Scale>>), Some(<<Scale>>)}

\* a caller's cached inverse: None, or a 2x2 matrix of its own
CinvArgs == {None, Some(Diag(2, 2 * One))}

CostEpsilonArgs ==
    { <<Lit("squared"), None>>, <<Lit("huber"), None>> }

Call(train, cinv, test_target, uncertainty, basis, verr, terr, standardize, ce, optimize) ==
    [train_fp |-> train.fp, test_fp |-> TestFp, train_target |-> train.target,
     cinv |-> cinv, test_target |-> test_target, uncertainty |-> uncertainty,
     basis |-> basis, get_validation_error |-> verr, get_training_error |-> terr,
     standardize_target |-> standardize, cost |-> ce[1], epsilon |-> ce[2],
     optimize_hyperparameters |-> optimize]

FirstTrain == [fp |-> <<Row(0), Row(Scale)>>, target |-> <<0, 2 * Scale>>]

\* every training set and cached inverse, with the defaults for the error
\* options (none requested, cost 'squared', no test targets)
DataCalls ==
    { Call(tr, ci, None, u, FALSE, FALSE, FALSE, s, <<Lit("squared"), None>>, o) :
        tr \in TrainSets, ci \in CinvArgs, u \in BOOLEAN, s \in BOOLEAN,
        o \in BOOLEAN }

\* every combination of the options that select what is computed, on one
\* training set with the default standardize_target
OptionCalls ==
    { Call(FirstTrain, None, tt, u, b, v, t, TRUE, ce, o) :
        tt \in TestTargets, u \in BOOLEAN, b \in BOOLEAN, v \in BOOLEAN,
        t \in BOOLEAN, ce \in CostEpsilonArgs, o \in BOOLEAN }

\* the calls compared for reproducibility: the prediction alone is requested
ReproCalls ==
    { c \in DataCalls : ~c.uncertainty }

Gaussian(key, width) == Desc(key, Lit("gaussian"), Some(width))

\* the kernel specifications an engine is constructed with
KernelDicts ==
    { <<Gaussian("k1", Width("float", <<Micro>>))>>,
      <<Gaussian("k1", Width("int", <<Micro>>))>>,
      <<Gaussian("k1", Width("array", Tab(LAMBDA i : Micro, NumFeatures)))>>,
      <<Desc("k1", Str("gaussian", FALSE), Some(Width("float", <<Micro>>)))>>,
      <<Desc("k1", Lit("linear"), None)>>,
      <<Desc("k1", Lit("polynomial"), None)>>,
      <<Desc("k1", Lit("laplacian"), Some(Width("float", <<Micro>>)))>>,
      <<Gaussian("k1", Width("float", <<Micro>>)), Desc("k2", Lit("linear"), None)>>,
      <<Desc("k1", Lit("linear"), None), Gaussian("k2", Width("float", <<Micro>>))>>,
      <<Gaussian("k1", Width("float", <<Micro>>)),
        Gaussian("k2", Width("float", <<10 * Micro>>))>> }

\* FitnessPrediction(kernel_dict, regularization): every kernel specification
\* with regularization 1.0, and the default regularization=None
Engines ==
    {<<kd, Some(Micro)>> : kd \in KernelDicts}
    \cup {<<<<Gaussian("k1", Width("float", <<Micro>>))>>, None>>}

Init ==
    /\ \E e \in Engines : kernel_dict = e[1] /\ regularization = e[2]
    /\ standardize_target = None
    /\ standardize_data = None
    /\ theta_opt = None
    /\ ret = [pc |-> "idle"]
    /\ ref = None
    /\ err = NoErr
    /\ curve = NoCurve

\* a caller invokes get_predictions and the call runs to its return or raise
GetPredictions(c) ==
    /\ ret.pc = "idle"
    /\ \E x \in optimizer_choices(kernel_dict, regularization, NCols(c.train_fp),
                                  c.optimize_hyperparameters) :
       \E self \in {Self(kernel_dict, regularization, standardize_target,
                         standardize_data, theta_opt)} :
       \E f1 \in {gp_standardize(c, Frame(self, c))} :
       \E f2 \in {gp_optimize(c, x, f1)} :
       \E f3 \in {gp_inverse(c, f2)} :
       \E f4 \in {gp_predict(c, f3)} :
       \E f5 \in {gp_validation(c, f4)} :
       \E f6 \in {gp_training(c, f5)} :
       \E f7 \in {gp_uncertainty(c, f6)} :
       \E f8 \in {gp_basis(c, f7)} :
       \E out \in {gp_return(f8)} :
             /\ kernel_dict' = out.self.kernel_dict
             /\ regularization' = out.self.regularization
             /\ standardize_target' = out.self.standardize_target
             /\ standardize_data' = out.self.standardize_data
             /\ theta_opt' = out.self.theta_opt
             /\ ret' = [pc |-> IF out.status = "ok" THEN "returned" ELSE "raised",
                        args |-> c, entry |-> self, status |-> out.status,
                        stage |-> out.stage, data |-> out.data,
                        trace |-> out.trace]
             /\ ref' = IF out.trace.optimized THEN None ELSE ref
    /\ UNCHANGED <<err, curve>>

\* the caller takes the bundle (or the exception) and is ready to call again
Receive ==
    /\ ret.pc # "idle"
    /\ ret' = [pc |-> "idle"]
    /\ UNCHANGED <<engine, ref, err, curve>>

\* the caller keeps a returned non-optimizing call to compare a later one with
Remember ==
    /\ ret.pc = "returned"
    /\ ~ret.args.optimize_hyperparameters
    /\ ref # Some([args |-> ret.args, prediction |-> ret.data.prediction])
    /\ ref' = Some([args |-> ret.args, prediction |-> ret.data.prediction])
    /\ UNCHANGED <<engine, ret, err, curve>>

DataCall == \E c \in DataCalls : GetPredictions(c)
OptionCall == \E c \in OptionCalls : GetPredictions(c)
ReproCall == \E c \in ReproCalls : GetPredictions(c)

Next == DataCall \/ Receive

Spec == Init /\ [][Next]_vars

NextOptions == OptionCall \/ Receive

SpecOptions == Init /\ [][NextOptions]_vars

NextRepro == ReproCall \/ Remember \/ Receive

SpecRepro == Init /\ [][NextRepro]_vars

----------------------------------------------------------------------------
(* learning_curve, one step at a time: the serial loop, and the pool whose  *)
(* workers take the tasks in order and finish them in any order.            *)

InitCurve ==
    /\ EngineInit0
    /\ err = NoErr
    /\ curve \in CurveArgs

\* lines 52-63: total, and the choice of the path
LearningCurveCall ==
    /\ curve.pc = "args"
    /\ LET t == total(curve.n, curve.min_data, curve.step)
       IN  curve' = [curve EXCEPT
                        !.total = t,
                        !.pc = IF curve.nprocs # 1 THEN "pool" ELSE "serial",
                        !.pending = IF curve.nprocs # 1 THEN tasks(t) ELSE << >>]
    /\ UNCHANGED <<engine, ret, ref, err>>

\* lines 73-79: one iteration of the serial loop
SerialIteration ==
    /\ curve.pc = "serial"
    /\ curve.x < curve.total
    /\ curve' = [curve EXCEPT
                    !.x = @ + 1,
                    !.output = Append(@, single_model(curve.x, curve.step,
                                  TrainRows(curve.n), TrainTargets(curve.n))),
                    !.calls = Append(@, single_model_subset(curve.x, curve.step,
                                  TrainRows(curve.n), TrainTargets(curve.n)))]
    /\ UNCHANGED <<engine, ret, ref, err>>

\* line 80 after the serial loop
SerialReturn ==
    /\ curve.pc = "serial"
    /\ curve.x >= curve.total
    /\ curve' = [curve EXCEPT !.pc = "done"]
    /\ UNCHANGED <<engine, ret, ref, err>>

\* the pool hands the next task of args to an idle worker (lines 59-65)
PoolFeed ==
    /\ curve.pc = "pool"
    /\ curve.pending # << >>
    /\ Cardinality(curve.running) < curve.nprocs
    /\ curve' = [curve EXCEPT !.pending = Tail(@),
                              !.running = @ \cup {Head(curve.pending)}]
    /\ UNCHANGED <<engine, ret, ref, err>>

\* a worker finishes its task: _single_model runs and its result is queued
PoolWorker ==
    /\ curve.pc = "pool"
    /\ \E x \in curve.running :
          curve' = [curve EXCEPT
                       !.running = @ \ {x},
                       !.results = Append(@, single_model(x, curve.step,
                                     TrainRows(curve.n), TrainTargets(curve.n))),
                       !.calls = Append(@, single_model_subset(x, curve.step,
                                     TrainRows(curve.n), TrainTargets(curve.n)))]
    /\ UNCHANGED <<engine, ret, ref, err>>

\* lines 64-67: imap_unordered yields the next finished result
PoolCollect ==
    /\ curve.pc = "pool"
    /\ curve.results # << >>
    /\ curve' = [curve EXCEPT !.results = Tail(@),
                              !.output = Append(@, Head(curve.results))]
    /\ UNCHANGED <<engine, ret, ref, err>>

\* lines 70 and 80: every task has been collected
PoolReturn ==
    /\ curve.pc = "pool"
    /\ curve.pending = << >> /\ curve.running = {} /\ curve.results = << >>
    /\ curve' = [curve EXCEPT !.pc = "done"]
    /\ UNCHANGED <<engine, ret, ref, err>>

NextCurve ==
    \/ LearningCurveCall
    \/ SerialIteration
    \/ SerialReturn
    \/ PoolFeed
    \/ PoolWorker
    \/ PoolCollect
    \/ PoolReturn

SpecCurve == InitCurve /\ [][NextCurve]_vars

----------------------------------------------------------------------------
(* Properties of get_predictions.                                           *)

Called == ret.pc # "idle"
Returned == ret.pc = "returned"

SingleGaussian(kd) == Len(kd) = 1 /\ kd[1].type.text = "gaussian"

InBox(v) == LowerBound <= v /\ v <= UpperBound

\* C1 (Spec): once optimization has run, the single gaussian descriptor holds
\* the optimizer's components but the last as its width and the regularization
\* holds the last component; a call with optimize_hyperparameters=false leaves
\* the kernel specification and the regularization as it found them, and
\* every Gram matrix it builds is built from them.
C1_TunedValuesPersist ==
    /\ ~IsNone(theta_opt) =>
          LET x == Val(theta_opt)
          IN  /\ SingleGaussian(kernel_dict)
              /\ Val(kernel_dict[1].width).v = SubSeq(x, 1, Len(x) - 1)
              /\ regularization = Some(x[Len(x)])
    /\ (Called /\ ~ret.args.optimize_hyperparameters) =>
          /\ kernel_dict = ret.entry.kernel_dict
          /\ regularization = ret.entry.regularization
          /\ \A i \in 1..Len(ret.trace.gram_calls) :
                LET g == ret.trace.gram_calls[i]
                IN  /\ g.kernel_dict = kernel_dict
                    /\ g.line = 125 => g.regularization = regularization

\* a call without optimization has returned on an engine tuned earlier, and
\* has built its Gram matrix
C1_Witness ==
    /\ Returned
    /\ ~ret.args.optimize_hyperparameters
    /\ ~IsNone(theta_opt)
    /\ ~IsNone(ret.entry.theta_opt)
    /\ Len(ret.trace.gram_calls) > 0
    /\ Val(theta_opt)[1] # Val(theta_opt)[Len(Val(theta_opt))]

\* C2 as stated (Spec): on a kernel specification that is not exactly one
\* gaussian descriptor, a call with optimize_hyperparameters=true ends in a
\* NotImplementedError before the optimizer is invoked.
C2_NotImplemented ==
    (/\ Called
     /\ ret.args.optimize_hyperparameters
     /\ ~SingleGaussian(ret.entry.kernel_dict))
        => /\ ret.status = "NotImplementedError"
           /\ ret.stage = "optimize"
           /\ ~ret.trace.minimize_called
           /\ ~ret.trace.optimized

\* C3 (Spec): the optimizer is given one pair (1e-6, 1e3) per component of
\* theta, and whenever optimization has run every persisted width component
\* and the persisted regularization lie within [1e-6, 1e3].
C3_BoundedHyperparameters ==
    /\ (Called /\ ret.trace.minimize_called) =>
          /\ Len(ret.trace.bounds) = Len(ret.trace.theta)
          /\ \A i \in 1..Len(ret.trace.bounds) :
                ret.trace.bounds[i] = <<LowerBound, UpperBound>>
    /\ ~IsNone(theta_opt) =>
          /\ \A k \in 1..Len(kernel_dict) :
                LET w == Val(kernel_dict[k].width).v
                IN  \A i \in 1..Len(w) : InBox(w[i])
          /\ InBox(Val(regularization))

\* an optimizing call has returned with a width at the upper bound and the
\* regularization at the lower bound
C3_Witness ==
    /\ Returned
    /\ ret.trace.optimized
    /\ Val(kernel_dict[1].width).v[1] = UpperBound
    /\ regularization = Some(LowerBound)

\* C4 as stated (Spec): every uncertainty value returned is a real number
\* that is not negative, never NaN.
C4_UncertaintyReal ==
    (Returned /\ ret.args.uncertainty) =>
        /\ Len(ret.data.uncertainty) = Len(ret.args.test_fp)
        /\ \A i \in 1..Len(ret.data.uncertainty) :
              ~IsNaN(ret.data.uncertainty[i]) /\ ret.data.uncertainty[i] >= 0

ExpectedKeys(c) ==
    {"prediction"}
    \cup (IF c.get_validation_error THEN {"validation_rmse"} ELSE {})
    \cup (IF c.get_training_error THEN {"train_prediction", "training_rmse"} ELSE {})
    \cup (IF c.uncertainty THEN {"uncertainty"} ELSE {})
    \cup (IF c.basis THEN {"basis_analysis"} ELSE {})

\* C5 (SpecOptions): the keys of a returned bundle are 'prediction' together
\* with exactly the keys of the computations the call requested.
C5_BundleKeys == Returned => ret.data.keys = ExpectedKeys(ret.args)

\* a call asking for the uncertainty, the training error and the basis
\* analysis but not the validation error has returned
C5_Witness ==
    /\ Returned
    /\ ret.args.uncertainty /\ ret.args.get_training_error /\ ret.args.basis
    /\ ~ret.args.get_validation_error
    /\ ret.data.keys = {"prediction", "train_prediction", "training_rmse",
                        "uncertainty", "basis_analysis"}

\* C6 as stated (SpecOptions): with get_validation_error=true and no test
\* targets the call does not stop at the validation error and returns a bundle
\* without one; with both present the validation error is get_error of the
\* predictions against the test targets.
C6_ValidationWhenTargets ==
    /\ (Called /\ ret.args.get_validation_error /\ IsNone(ret.args.test_target)) =>
          /\ ret.stage # "validation"
          /\ Returned => "validation_rmse" \notin ret.data.keys
    /\ (Returned /\ ret.args.get_validation_error
                 /\ ~IsNone(ret.args.test_target)) =>
          /\ "validation_rmse" \in ret.data.keys
          /\ ret.data.validation_rmse =
                get_error(ret.data.prediction, ret.args.test_target,
                          ret.args.cost, ret.args.epsilon)

\* C7 (SpecRepro): a call without optimization returns the prediction that
\* the same call returned earlier on this engine, whatever calls without
\* optimization came in between.
C7_Reproducible ==
    (/\ Returned
     /\ ~ret.args.optimize_hyperparameters
     /\ ~IsNone(ref)
     /\ Val(ref).args = ret.args)
        => ret.data.prediction = Val(ref).prediction

\* the repeated call asked for no standardization and ran on an engine still
\* holding the standardization of another training set from a call in between
C7_Witness ==
    /\ Returned
    /\ ~ret.args.optimize_hyperparameters
    /\ ~IsNone(ref)
    /\ Val(ref).args = ret.args
    /\ ~ret.args.standardize_target
    /\ IsNone(ret.entry.theta_opt)
    /\ ~IsNone(ret.entry.standardize_data)
    /\ ret.entry.standardize_target = Some(TRUE)
    /\ Val(ret.entry.standardize_data) # target_standardize(ret.args.train_target)

ScalarWidth(desc) == Val(desc.width).kind \in {"float", "int"}

\* C12 as stated (Spec): when optimization runs on a single gaussian descriptor
\* whose width is one number, integer or floating point, and the training
\* matrix has D columns, the optimizer is handed D copies of the width followed
\* by the regularization, and the width persisted afterwards has D components.
C12_ScalarWidthReplicated ==
    (/\ Called
     /\ ret.args.optimize_hyperparameters
     /\ ret.trace.minimize_called
     /\ SingleGaussian(ret.entry.kernel_dict)
     /\ ScalarWidth(ret.entry.kernel_dict[1]))
        => LET D == NCols(ret.args.train_fp)
               w == Val(ret.entry.kernel_dict[1].width).v[1]
           IN  /\ Len(ret.trace.theta) = D + 1
               /\ \A i \in 1..D : ret.trace.theta[i] = Some(w)
               /\ ret.trace.theta[D + 1] = ret.entry.regularization
               /\ ret.trace.optimized =>
                     Len(Val(kernel_dict[1].width).v) = D

----------------------------------------------------------------------------
(* Properties of learning_curve, checked under SpecCurve.                   *)

CurveDone == curve.pc = "done"
NumTasks == IF curve.total > 0 THEN curve.total ELSE 0

\* C11 as stated: the list learning_curve returns holds one result for each
\* task index 0..total-1, and the entry at position i is the result of task
\* i, in the serial path and in the pool path under every completion order.
\* (A result is what predict returned; it carries no task index of its own.)
C11_ResultsByTaskIndex ==
    CurveDone =>
        /\ Len(curve.output) = NumTasks
        /\ \A i \in 1..Len(curve.output) :
              curve.output[i] = single_model(i - 1, curve.step,
                                    TrainRows(curve.n), TrainTargets(curve.n))

\* C13 as stated: learning_curve runs total = (n - min_data) // step tasks,
\* and each passes predict at least min_data training rows together with the
\* targets of exactly those rows.
C13_SubsetAtLeastMinData ==
    /\ CurveDone => Len(curve.calls) = NumTasks
    /\ \A k \in 1..Len(curve.calls) :
          LET c == curve.calls[k]
          IN  /\ Len(c.train) >= curve.min_data
              /\ c.targets = Tab(LAMBDA i : TargetOf(c.train[i]), Len(c.train))

----------------------------------------------------------------------------
(* Properties of get_error, checked under SpecErr.                          *)

ErrDone == err.pc = "done"
ErrP == err.prediction
ErrT == Val(err.target)

AllZero(s) == \A i \in 1..Len(s) : s[i] = 0

\* C8: get_error stops with an assertion failure exactly when the prediction
\* and target lengths differ; the message is the prefix followed by "more
\* targets than predictions." when there are fewer predictions than targets
\* and by "fewer targets than predictions." when there are more, and nothing
\* is computed in either case.
C8_LengthGuard ==
    ErrDone =>
        /\ Len(ErrP) < Len(ErrT) =>
              /\ err.result.status = "AssertionError"
              /\ err.result.msg = <<MsgPrefix, "more targets than predictions.">>
              /\ err.result.keys = {}
        /\ Len(ErrP) > Len(ErrT) =>
              /\ err.result.status = "AssertionError"
              /\ err.result.msg = <<MsgPrefix, "fewer targets than predictions.">>
              /\ err.result.keys = {}
        /\ Len(ErrP) = Len(ErrT) => err.result.status # "AssertionError"

\* a call with more predictions than targets has been answered
C8_Witness ==
    /\ ErrDone
    /\ Len(ErrP) > Len(ErrT)
    /\ err.result.status = "AssertionError"

\* C9 as stated: a cost outside 'squared', 'absolute', 'insensitive' makes
\* get_error fail rather than return a result.
C9_UnknownCostFails ==
    (ErrDone /\ err.cost.text \notin KnownCosts) => err.result.status # "ok"

\* C10 as stated: for a supported cost (with epsilon supplied when the cost is
\* 'insensitive'), get_error(p, p) has every per-point entry and the average
\* equal to zero.
C10_SelfErrorZero ==
    (/\ ErrDone
     /\ ErrP = ErrT
     /\ err.cost.text \in KnownCosts
     /\ (err.cost.text = "insensitive" => ~IsNone(err.epsilon)))
        => /\ err.result.status = "ok"
           /\ err.result.keys = {"all", "average"}
           /\ Len(err.result.all) = Len(ErrP)
           /\ AllZero(err.result.all)
           /\ err.result.average = 0

============================================================================
